---- MODULE Spec2Model ----
(***************************************************************************)
(* A model of the YouTube download scripts: download_audio (pafy) and      *)
(* download_video (pytube), together with their interactive entry          *)
(* sections.  One behaviour is one run: either a direct call of one of the *)
(* two functions with arbitrary arguments, or one run of a script's        *)
(* __main__ section with arbitrary text typed on standard input.  The      *)
(* external resolver, the transfer step and the filesystem are the         *)
(* environment: each of their steps either succeeds with some value or     *)
(* raises an exception carrying some message.                              *)
(***************************************************************************)
EXTENDS Naturals, Sequences, FiniteSets, TLC

VARIABLES
    entry,      \* what is run: a function called directly, or a script
    pc,         \* position in the running code
    stdin,      \* the lines typed at the prompts (scripts only)
    url,        \* argument url / link of the function (a Python value)
    save_path,  \* argument save_path of download_video (a string)
    fs0,        \* the filesystem before the run
    fs,         \* the filesystem: path -> "absent" | "dir" | "file"
    calls,      \* the external steps performed so far, in order
    bestaudio,  \* audio: what getbestaudio() returned
    query,      \* video: the current StreamQuery (a sequence of streams)
    offered,    \* video: the streams the resolver reported
    stream,     \* video: the selected stream
    filename,   \* what the download step reported
    cause,      \* the exception an external step raised, if any
    result,     \* outcome of the function call
    stdout      \* the lines printed

vars == <<entry, pc, stdin, url, save_path, fs0, fs, calls, bestaudio, query,
          offered, stream, filename, cause, result, stdout>>

-----------------------------------------------------------------------------
(* Bounds *)

MaxRawLen == 2      \* longest text typed at a prompt or passed as argument
MaxStreams == 3     \* longest stream list the resolver reports

-----------------------------------------------------------------------------
(* Python values and strings *)

PyNone == [kind |-> "None", val |-> ""]
PyStr(s) == [kind |-> "str", val |-> s]
Unset == [kind |-> "unset", val |-> ""]

Alphabet == {" ", "u"}
Whitespace == {" "}

RECURSIVE Strs(_)
Strs(n) ==
    IF n = 0 THEN {""}
    ELSE LET S == Strs(n - 1) IN S \cup {s \o c : s \in S, c \in Alphabet}

Texts == Strs(MaxRawLen)

RECURSIVE LStrip(_)
LStrip(s) ==
    IF Len(s) > 0 /\ SubSeq(s, 1, 1) \in Whitespace
    THEN LStrip(SubSeq(s, 2, Len(s)))
    ELSE s

RECURSIVE RStrip(_)
RStrip(s) ==
    IF Len(s) > 0 /\ SubSeq(s, Len(s), Len(s)) \in Whitespace
    THEN RStrip(SubSeq(s, 1, Len(s) - 1))
    ELSE s

NoStrip(s) == s

\* str.strip()
Strip(s) == RStrip(LStrip(s))

StartsWith(s, p) == Len(s) >= Len(p) /\ SubSeq(s, 1, Len(p)) = p

-----------------------------------------------------------------------------
(* The environment's values *)

\* Messages an external step's exception may carry.
CauseMsgs == {"Connection failed", "Connection Error: timed out"}

\* Paths a download step may report.
ReportedPaths == {"test_audio.mp3", "test_video.mp4"}

\* Streams a resolver may offer: progressive mp4, an adaptive mp4 of higher
\* resolution, and a progressive webm.
StreamUniverse ==
    { [itag |-> 18,  res |-> 360,  progressive |-> TRUE,  ext |-> "mp4"],
      [itag |-> 135, res |-> 480,  progressive |-> TRUE,  ext |-> "mp4"],
      [itag |-> 22,  res |-> 720,  progressive |-> TRUE,  ext |-> "mp4"],
      [itag |-> 137, res |-> 1080, progressive |-> FALSE, ext |-> "mp4"],
      [itag |-> 45,  res |-> 720,  progressive |-> TRUE,  ext |-> "webm"] }

NoStream == [itag |-> 0, res |-> 0, progressive |-> FALSE, ext |-> ""]

\* The stream lists a resolver may report: no stream twice, any order.
StreamLists ==
    UNION { { q \in [1..n -> StreamUniverse] :
                \A i, j \in 1..n : i # j => q[i] # q[j] } : n \in 0..MaxStreams }

Paths == Texts \ {""}
Kinds == {"absent", "dir", "file"}

NoCause == [step |-> "", msg |-> ""]
NoResult == [kind |-> "none", type |-> "", value |-> ""]
Return(v) == [kind |-> "return", type |-> "", value |-> v]
Raise(t, m) == [kind |-> "raise", type |-> t, value |-> m]

Call(op, arg) == [op |-> op, arg |-> arg]

-----------------------------------------------------------------------------
(* Pure parts of the code *)

\* Python's `not x` for an argument that is None or a string.
IsEmptyInputNoneOnly(v) == v.kind = "None"
IsEmptyInput(v) == v.kind = "None" \/ v.val = ""

AudioFailureNoCause(m) == "Failed to download audio"
AudioFailure(m) == "Failed to download audio: " \o m
ConnectionFailureAsDownload(m) == "Error: Couldn't download the video - " \o m
ConnectionFailure(m) == "Connection Error: " \o m
VideoFailureAsConnection(m) == "Connection Error: " \o m
VideoFailure(m) == "Error: Couldn't download the video - " \o m
ErrorLine(m) == "Error: " \o m

\* save_path and not os.path.exists(save_path)
NeedsMakedirsNoExistsTest(p, f) == p # ""
NeedsMakedirs(p, f) == p # "" /\ f[p] = "absent"

\* The working directory (""), or an existing directory.
IsDirectory(p, f) == IF p = "" THEN TRUE ELSE f[p] = "dir"

\* .filter(progressive=True, file_extension='mp4')
Matches(s) == s.progressive /\ s.ext = "mp4"

RECURSIVE Filter(_)
Filter(q) ==
    IF q = <<>> THEN <<>>
    ELSE IF Matches(Head(q)) THEN <<Head(q)>> \o Filter(Tail(q))
    ELSE Filter(Tail(q))

\* .order_by('resolution'): ascending and stable.
RECURSIVE Insert(_, _)
Insert(s, q) ==
    IF q = <<>> THEN <<s>>
    ELSE IF s.res < Head(q).res THEN <<s>> \o q
    ELSE <<Head(q)>> \o Insert(s, Tail(q))

RECURSIVE OrderByResolution(_)
OrderByResolution(q) ==
    IF q = <<>> THEN <<>>
    ELSE Insert(q[Len(q)], OrderByResolution(SubSeq(q, 1, Len(q) - 1)))

\* [-1] on a non-empty sequence
First(q) == q[1]
Last(q) == q[Len(q)]

\* return filename
ReturnValueInCwd(f) == "./" \o f
ReturnValue(f) == f

\* stream.download(save_path): the destination handed to the transfer step
Destination(p) == p

\* The order of the statements of download_video after validation.
VideoNextStepDirectoryLast(step) ==
    CASE step = "new" -> "filter"
      [] step = "filter" -> "order_by"
      [] step = "order_by" -> "getitem"
      [] step = "getitem" -> "makedirs"
      [] step = "makedirs" -> "download"

VideoNextStep(step) ==
    CASE step = "new" -> "makedirs"
      [] step = "makedirs" -> "filter"
      [] step = "filter" -> "order_by"
      [] step = "order_by" -> "getitem"
      [] step = "getitem" -> "download"

IsAudio == entry \in {"download_audio", "audio_main"}
IsVideo == entry \in {"download_video", "video_main"}
IsScript == entry \in {"audio_main", "video_main"}

-----------------------------------------------------------------------------
(* Initial states *)

InitCommon ==
    /\ fs0 = fs
    /\ calls = <<>>
    /\ bestaudio = "unset"
    /\ query = <<>>
    /\ offered = <<>>
    /\ stream = NoStream
    /\ filename = ""
    /\ cause = NoCause
    /\ result = NoResult
    /\ stdout = <<>>

\* At most the path the run will use exists beforehand.
InitFs(p) ==
    \E k \in Kinds :
        /\ (p = "" => k = "absent")
        /\ fs = [x \in Paths |-> IF x = p THEN k ELSE "absent"]

InitCall ==
    /\ entry \in {"download_audio", "download_video"}
    /\ pc = "validate"
    /\ stdin = [url |-> "", path |-> ""]
    /\ url \in {PyNone} \cup {PyStr(s) : s \in Texts}
    /\ save_path \in (IF entry = "download_video" THEN Texts ELSE {""})
    /\ InitFs(save_path)

InitScript ==
    /\ entry \in {"audio_main", "video_main"}
    /\ pc = "main"
    /\ \E u \in Texts :
        \E p \in (IF entry = "video_main" THEN Texts ELSE {""}) :
            /\ stdin = [url |-> u, path |-> p]
            /\ InitFs(Strip(p))
    /\ url = Unset
    /\ save_path = ""

Init == (InitCall \/ InitScript) /\ InitCommon

-----------------------------------------------------------------------------
(* download_audio *)

\* except Exception as e: raise Exception(f"Failed to download audio: ...")
AudioExcept(step, m) ==
    /\ cause' = [step |-> step, msg |-> m]
    /\ result' = Raise("Exception", AudioFailure(m))
    /\ pc' = "returned"

AudioValidate ==
    /\ IsAudio /\ pc = "validate"
    /\ IF IsEmptyInput(url)
       THEN /\ result' = Raise("ValueError", "URL cannot be empty")
            /\ pc' = "returned"
       ELSE /\ pc' = "new"
            /\ UNCHANGED result
    /\ UNCHANGED <<entry, stdin, url, save_path, fs0, fs, calls, bestaudio,
                   query, stream, cause, stdout,
                   offered, filename>>

\* video = pafy.new(url)
PafyNew ==
    /\ IsAudio /\ pc = "new"
    /\ calls' = Append(calls, Call("pafy.new", url.val))
    /\ \/ pc' = "getbestaudio" /\ UNCHANGED <<cause, result>>
       \/ \E m \in CauseMsgs : AudioExcept("pafy.new", m)
    /\ UNCHANGED <<entry, stdin, url, save_path, fs0, fs, bestaudio, query,
                   stream, stdout,
                   offered, filename>>

\* bestaudio = video.getbestaudio(): a stream, or None when there is none
GetBestAudio ==
    /\ IsAudio /\ pc = "getbestaudio"
    /\ calls' = Append(calls, Call("getbestaudio", ""))
    /\ \/ /\ bestaudio' \in {"stream", "None"}
          /\ pc' = "download"
          /\ UNCHANGED <<cause, result>>
       \/ /\ \E m \in CauseMsgs : AudioExcept("getbestaudio", m)
          /\ UNCHANGED bestaudio
    /\ UNCHANGED <<entry, stdin, url, save_path, fs0, fs, query, stream, stdout,
                   offered, filename>>

\* filename = bestaudio.download(); return filename
AudioDownload ==
    /\ IsAudio /\ pc = "download"
    /\ IF bestaudio = "None"
       THEN /\ AudioExcept("download",
                           "'NoneType' object has no attribute 'download'")
            /\ UNCHANGED <<calls, filename>>
       ELSE /\ calls' = Append(calls, Call("download", ""))
            /\ \/ /\ filename' \in ReportedPaths
                  /\ result' = Return(ReturnValue(filename'))
                  /\ pc' = "returned"
                  /\ UNCHANGED cause
               \/ /\ \E m \in CauseMsgs : AudioExcept("download", m)
                  /\ UNCHANGED filename
    /\ UNCHANGED <<entry, stdin, url, save_path, fs0, fs, bestaudio, query,
                   stream, stdout,
                   offered>>

-----------------------------------------------------------------------------
(* download_video *)

\* first handler: raise Exception(f"Connection Error: {str(e)}")
ConnectionExcept(step, m) ==
    /\ cause' = [step |-> step, msg |-> m]
    /\ result' = Raise("Exception", ConnectionFailure(m))
    /\ pc' = "returned"

VideoExceptRetries(step, m) ==
    /\ cause' = [step |-> step, msg |-> m]
    /\ pc' = "new"
    /\ UNCHANGED result

\* second handler: raise Exception(f"Error: Couldn't download the video - ...")
VideoExcept(step, m) ==
    /\ cause' = [step |-> step, msg |-> m]
    /\ result' = Raise("Exception", VideoFailure(m))
    /\ pc' = "returned"

VideoValidate ==
    /\ IsVideo /\ pc = "validate"
    /\ IF IsEmptyInput(url)
       THEN /\ result' = Raise("ValueError", "Link cannot be empty")
            /\ pc' = "returned"
       ELSE /\ pc' = "new"
            /\ UNCHANGED result
    /\ UNCHANGED <<entry, stdin, url, save_path, fs0, fs, calls, bestaudio,
                   query, stream, cause, stdout,
                   offered, filename>>

\* yt = YouTube(link)
YouTubeNew ==
    /\ IsVideo /\ pc = "new"
    /\ calls' = Append(calls, Call("YouTube", url.val))
    /\ \/ pc' = VideoNextStep("new") /\ UNCHANGED <<cause, result>>
       \/ \E m \in CauseMsgs : ConnectionExcept("YouTube", m)
    /\ UNCHANGED <<entry, stdin, url, save_path, fs0, fs, bestaudio, query,
                   stream, stdout,
                   offered, filename>>

\* if save_path and not os.path.exists(save_path): os.makedirs(save_path)
MakeDirs ==
    /\ IsVideo /\ pc = "makedirs"
    /\ IF NeedsMakedirs(save_path, fs)
       THEN /\ calls' = Append(calls, Call("makedirs", save_path))
            /\ \/ /\ fs' = [fs EXCEPT ![save_path] = "dir"]
                  /\ pc' = VideoNextStep("makedirs")
                  /\ UNCHANGED <<cause, result>>
               \/ /\ \E m \in CauseMsgs : VideoExcept("makedirs", m)
                  /\ UNCHANGED fs
       ELSE /\ pc' = VideoNextStep("makedirs")
            /\ UNCHANGED <<fs, calls, cause, result>>
    /\ UNCHANGED <<entry, stdin, url, save_path, fs0, bestaudio, query, stream,
                   stdout,
                   offered, filename>>

\* yt.streams.filter(progressive=True, file_extension='mp4')
StreamsFilter ==
    /\ IsVideo /\ pc = "filter"
    /\ calls' = Append(calls, Call("filter", ""))
    /\ \/ /\ offered' \in StreamLists
          /\ query' = Filter(offered')
          /\ pc' = VideoNextStep("filter")
          /\ UNCHANGED <<cause, result>>
       \/ /\ \E m \in CauseMsgs : VideoExcept("filter", m)
          /\ UNCHANGED <<query, offered>>
    /\ UNCHANGED <<entry, stdin, url, save_path, fs0, fs, bestaudio, stream,
                   stdout,
                   filename>>

\* .order_by('resolution')
OrderBy ==
    /\ IsVideo /\ pc = "order_by"
    /\ calls' = Append(calls, Call("order_by", ""))
    /\ \/ /\ query' = OrderByResolution(query)
          /\ pc' = VideoNextStep("order_by")
          /\ UNCHANGED <<cause, result>>
       \/ /\ \E m \in CauseMsgs : VideoExcept("order_by", m)
          /\ UNCHANGED query
    /\ UNCHANGED <<entry, stdin, url, save_path, fs0, fs, bestaudio, stream,
                   stdout,
                   offered, filename>>

GetItemIndexErrorEscapes ==
    /\ IsVideo /\ pc = "getitem"
    /\ calls' = Append(calls, Call("getitem", ""))
    /\ IF query = <<>>
       THEN /\ cause' = [step |-> "getitem", msg |-> "list index out of range"]
            /\ result' = Raise("IndexError", "list index out of range")
            /\ pc' = "returned"
            /\ UNCHANGED stream
       ELSE /\ stream' = Last(query)
            /\ pc' = VideoNextStep("getitem")
            /\ UNCHANGED <<cause, result>>
    /\ UNCHANGED <<entry, stdin, url, save_path, fs0, fs, bestaudio, query,
                   stdout, offered, filename>>

\* stream = ...[-1]: IndexError on an empty query, caught by the handler
GetItem ==
    /\ IsVideo /\ pc = "getitem"
    /\ calls' = Append(calls, Call("getitem", ""))
    /\ IF query = <<>>
       THEN /\ VideoExcept("getitem", "list index out of range")
            /\ UNCHANGED stream
       ELSE /\ stream' = Last(query)
            /\ pc' = VideoNextStep("getitem")
            /\ UNCHANGED <<cause, result>>
    /\ UNCHANGED <<entry, stdin, url, save_path, fs0, fs, bestaudio, query,
                   stdout,
                   offered, filename>>

\* filename = stream.download(save_path); return filename
\* A transfer into a path that is a regular file cannot succeed.
StreamDownload ==
    /\ IsVideo /\ pc = "download"
    /\ calls' = Append(calls, Call("download", Destination(save_path)))
    /\ \/ /\ IsDirectory(save_path, fs)
          /\ filename' \in ReportedPaths
          /\ result' = Return(ReturnValue(filename'))
          /\ pc' = "returned"
          /\ UNCHANGED cause
       \/ /\ \E m \in CauseMsgs : VideoExcept("download", m)
          /\ UNCHANGED filename
    /\ UNCHANGED <<entry, stdin, url, save_path, fs0, fs, bestaudio, query,
                   stream, stdout,
                   offered>>

-----------------------------------------------------------------------------
(* The scripts' __main__ sections *)

\* url = input(...).strip(); if not url: print(...) else: download_audio(url)
AudioMain ==
    /\ entry = "audio_main" /\ pc = "main"
    /\ LET u == PyStr(Strip(stdin.url)) IN
        IF IsEmptyInput(u)
        THEN /\ stdout' = Append(stdout, "URL cannot be empty")
             /\ pc' = "exit"
             /\ UNCHANGED url
        ELSE /\ url' = u
             /\ pc' = "validate"
             /\ UNCHANGED stdout
    /\ UNCHANGED <<entry, stdin, save_path, fs0, fs, calls, bestaudio, query,
                   stream, cause, result,
                   offered, filename>>

AudioMainReport ==
    /\ entry = "audio_main" /\ pc = "returned"
    /\ stdout' = Append(stdout,
                        IF result.kind = "return"
                        THEN "Audio downloaded successfully"
                        ELSE ErrorLine(result.value))
    /\ pc' = "exit"
    /\ UNCHANGED <<entry, stdin, url, save_path, fs0, fs, calls, bestaudio,
                   query, stream, cause, result,
                   offered, filename>>

\* LINK = input(...).strip(); SAVE_PATH = input(...).strip()
VideoMain ==
    /\ entry = "video_main" /\ pc = "main"
    /\ LET u == PyStr(Strip(stdin.url)) IN
        IF IsEmptyInput(u)
        THEN /\ stdout' = Append(stdout, "Please provide a YouTube link")
             /\ pc' = "exit"
             /\ UNCHANGED <<url, save_path>>
        ELSE /\ url' = u
             /\ save_path' = Strip(stdin.path)
             /\ pc' = "validate"
             /\ UNCHANGED stdout
    /\ UNCHANGED <<entry, stdin, fs0, fs, calls, bestaudio, query, stream,
                   cause, result,
                   offered, filename>>

VideoMainReport ==
    /\ entry = "video_main" /\ pc = "returned"
    /\ stdout' = Append(stdout,
                        IF result.kind = "return"
                        THEN "Video downloaded successfully"
                        ELSE ErrorLine(result.value))
    /\ pc' = "exit"
    /\ UNCHANGED <<entry, stdin, url, save_path, fs0, fs, calls, bestaudio,
                   query, stream, cause, result,
                   offered, filename>>

-----------------------------------------------------------------------------

Next ==
    \/ AudioValidate \/ PafyNew \/ GetBestAudio \/ AudioDownload
    \/ VideoValidate \/ YouTubeNew \/ MakeDirs \/ StreamsFilter \/ OrderBy
    \/ GetItem \/ StreamDownload
    \/ AudioMain \/ AudioMainReport \/ VideoMain \/ VideoMainReport

Spec == Init /\ [][Next]_vars

-----------------------------------------------------------------------------
(* Vocabulary of the properties *)

Finished == pc \in {"returned", "exit"}
EmptyArgument == url = PyNone \/ url = PyStr("")
OnlyWhitespace(s) == \A i \in 1..Len(s) : SubSeq(s, i, i) = " "

\* The names of the external steps performed, in order.
Ops == [i \in 1..Len(calls) |-> calls[i].op]
IsPrefix(a, b) == Len(a) <= Len(b) /\ \A i \in 1..Len(a) : a[i] = b[i]
Performed(op) == \E i \in 1..Len(calls) : calls[i].op = op

\* save_path named a path that did not exist before the run.
WasMissing == IF save_path = "" THEN FALSE ELSE fs0[save_path] = "absent"
NowDirectory == IF save_path = "" THEN FALSE ELSE fs[save_path] = "dir"

-----------------------------------------------------------------------------
(* Properties *)

\* C1: a call of download_audio or download_video with an empty or None
\* url/link performs no external step (no resolver, no directory, no
\* transfer), leaves the filesystem as it was, and ends by raising ValueError
\* with the function's own message, never an Exception of the download or
\* connection handlers.
C1_EmptyInputRejected ==
    EmptyArgument =>
        /\ calls = <<>>
        /\ fs = fs0
        /\ cause = NoCause
        /\ pc \in {"validate", "returned"}
        /\ pc = "returned" =>
            result = Raise("ValueError",
                           IF IsAudio THEN "URL cannot be empty"
                           ELSE "Link cannot be empty")

C1_Witness ==
    /\ entry = "download_video" /\ url = PyNone /\ pc = "returned"
    /\ WasMissing
    /\ result.type = "ValueError"

\* C2: when no step of a call with a non-empty url fails, the call returns,
\* and the value returned is the very path the download step reported.
C2_ReturnsReportedPath ==
    /\ result.kind = "return" =>
        /\ Performed("download")
        /\ filename \in ReportedPaths
        /\ result.value = filename
    /\ (Finished /\ ~EmptyArgument /\ url # Unset /\ cause = NoCause) =>
        result.kind = "return"

C2_Witness ==
    /\ entry = "download_audio" /\ pc = "returned"
    /\ result = Return("test_audio.mp3")
    /\ filename = "test_audio.mp3"

\* C3: in download_audio every failure of pafy.new, getbestaudio or download
\* ends the call with the one error Exception("Failed to download audio: " +
\* cause), whichever step failed, and no later step is performed.
C3_AudioFailureWrapped ==
    IsAudio =>
        /\ cause # NoCause =>
            /\ Finished
            /\ result = Raise("Exception",
                              "Failed to download audio: " \o cause.msg)
            /\ cause.step = "pafy.new" => Ops = <<"pafy.new">>
            /\ cause.step = "getbestaudio" => Ops = <<"pafy.new", "getbestaudio">>
            /\ cause.step = "download" =>
                IF bestaudio = "None"
                THEN Ops = <<"pafy.new", "getbestaudio">>
                ELSE Ops = <<"pafy.new", "getbestaudio", "download">>
            /\ filename = ""
        /\ (result.kind = "raise" /\ result.type = "Exception") =>
            cause.step \in {"pafy.new", "getbestaudio", "download"}

C3_Witness ==
    /\ entry = "download_audio" /\ pc = "returned"
    /\ cause = [step |-> "getbestaudio", msg |-> "Connection failed"]
    /\ result.value = "Failed to download audio: Connection failed"

\* C4: in download_video, when YouTube(link) raises, the call ends with
\* Exception("Connection Error: " + cause) and has performed nothing but the
\* resolver's construction: no directory, no filtering or selection, no
\* transfer.
C4_ConnectionErrorFirstPhase ==
    (IsVideo /\ cause.step = "YouTube") =>
        /\ Finished
        /\ result = Raise("Exception", "Connection Error: " \o cause.msg)
        /\ Ops = <<"YouTube">>
        /\ fs = fs0
        /\ query = <<>> /\ offered = <<>> /\ stream = NoStream
        /\ filename = ""

C4_Witness ==
    /\ entry = "download_video" /\ pc = "returned"
    /\ cause = [step |-> "YouTube", msg |-> "Connection failed"]
    /\ WasMissing
    /\ result.value = "Connection Error: Connection failed"

\* C5: in download_video, once the resolver is constructed, every failure
\* (makedirs, filter, order_by, [-1], download) ends the call with
\* Exception("Error: Couldn't download the video - " + cause), a message that
\* never starts with "Connection Error: ".
C5_DownloadErrorSecondPhase ==
    IsVideo =>
        /\ (cause # NoCause /\ cause.step # "YouTube") =>
            /\ cause.step \in {"makedirs", "filter", "order_by", "getitem",
                               "download"}
            /\ Finished
            /\ result = Raise("Exception",
                    "Error: Couldn't download the video - " \o cause.msg)
            /\ ~StartsWith(result.value, "Connection Error: ")
        /\ (result.kind = "raise" /\ result.type = "Exception"
                /\ Len(calls) > 1) =>
            StartsWith(result.value, "Error: Couldn't download the video - ")

C5_Witness ==
    /\ entry = "download_video" /\ pc = "returned"
    /\ cause = [step |-> "makedirs", msg |-> "Connection Error: timed out"]
    /\ StartsWith(result.value, "Error: Couldn't download the video - ")

\* C6: when none of the streams the resolver reports is a progressive mp4,
\* download_video ends with the second handler's Exception ("Error: Couldn't
\* download the video - ..."); the IndexError of [-1] on the empty query does
\* not reach the caller, no stream is selected and no transfer is started.
C6_NoCandidatesFails ==
    (IsVideo /\ Performed("filter") /\ cause.step # "filter"
        /\ \A i \in 1..Len(offered) :
            ~(offered[i].progressive /\ offered[i].ext = "mp4")) =>
        /\ query = <<>>
        /\ stream = NoStream
        /\ ~Performed("download")
        /\ filename = ""
        /\ Finished =>
            /\ result.kind = "raise"
            /\ result.type = "Exception"
            /\ StartsWith(result.value, "Error: Couldn't download the video - ")
        /\ Performed("getitem") =>
            /\ Finished
            /\ result = Raise("Exception",
                "Error: Couldn't download the video - list index out of range")

C6_Witness ==
    /\ entry = "download_video" /\ pc = "returned"
    /\ Len(offered) = 2
    /\ query = <<>>
    /\ Ops[Len(Ops)] = "getitem"
    /\ cause = [step |-> "getitem", msg |-> "list index out of range"]

\* C7: the stream download_video selects and transfers is one of the
\* reported streams that is progressive and mp4, it is the last of the
\* candidates in ascending order of resolution, and no candidate has a
\* higher resolution; for candidates [360p, 480p, 720p] it is the 720p one.
C7_HighestResolutionSelected ==
    IsVideo =>
        /\ stream # NoStream =>
            /\ \E i \in 1..Len(offered) : offered[i] = stream
            /\ stream.progressive /\ stream.ext = "mp4"
            /\ \A i \in 1..Len(offered) :
                (offered[i].progressive /\ offered[i].ext = "mp4") =>
                    offered[i].res <= stream.res
            /\ \A i, j \in 1..Len(query) : i < j => query[i].res <= query[j].res
            /\ stream = query[Len(query)]
            /\ [i \in 1..Len(query) |-> query[i].res] = <<360, 480, 720>> =>
                stream.res = 720
        /\ Performed("download") => stream # NoStream

C7_Witness ==
    /\ entry = "download_video" /\ pc = "returned"
    /\ result.kind = "return"
    /\ Len(offered) = 3
    /\ offered[1].res = 720 /\ offered[1].ext = "mp4"
    /\ offered[2].res = 1080
    /\ offered[3].res = 360
    /\ stream.res = 720

\* C8: download_video hands the transfer step its save_path as it is ("" when
\* none was given).  It changes the filesystem at most at save_path, and
\* creates that directory exactly when save_path is non-empty and did not
\* exist: never for an empty save_path, never over an existing path; once the
\* directory step is passed a missing save_path is a directory, and after a
\* successful call with a non-empty save_path the directory exists.
C8_DestinationAndDirectory ==
    IsVideo =>
        /\ \A i \in 1..Len(calls) :
            calls[i].op = "download" => calls[i].arg = save_path
        /\ (entry = "video_main" /\ url # Unset) => save_path = Strip(stdin.path)
        /\ \A p \in Paths : p # save_path => fs[p] = fs0[p]
        /\ fs # fs0 => (WasMissing /\ NowDirectory)
        /\ Performed("makedirs") => WasMissing
        /\ (WasMissing /\ Performed("filter")) => NowDirectory
        /\ (result.kind = "return" /\ save_path # "") => NowDirectory

C8_Witness ==
    /\ entry = "download_video" /\ pc = "returned"
    /\ result.kind = "return"
    /\ WasMissing /\ NowDirectory
    /\ calls[Len(calls)] = Call("download", save_path)

\* C9: a run of either script prints exactly one line.  When the url typed is
\* empty or only whitespace it is the empty-input line and neither the
\* function nor the resolver is called; otherwise it is the success line
\* exactly when the function returned, and "Error: " followed by the
\* exception's message exactly when it raised.
C9_ScriptPrintsOneLine ==
    IsScript =>
        /\ Len(stdout) = (IF pc = "exit" THEN 1 ELSE 0)
        /\ (pc = "exit" /\ OnlyWhitespace(stdin.url)) =>
            /\ stdout = <<IF IsAudio THEN "URL cannot be empty"
                          ELSE "Please provide a YouTube link">>
            /\ calls = <<>>
            /\ url = Unset
            /\ result = NoResult
        /\ (pc = "exit" /\ ~OnlyWhitespace(stdin.url)) =>
            /\ result.kind \in {"return", "raise"}
            /\ result.kind = "return" <=>
                stdout = <<IF IsAudio THEN "Audio downloaded successfully"
                           ELSE "Video downloaded successfully">>
            /\ result.kind = "raise" <=>
                stdout = <<"Error: " \o result.value>>
        /\ OnlyWhitespace(stdin.url) => pc \in {"main", "exit"}

C9_Witness ==
    /\ entry = "video_main" /\ pc = "exit"
    /\ stdin.url = " u"
    /\ stdout = <<"Error: Connection Error: Connection failed">>

\* C10 as stated: the directory is created only after a stream has been
\* selected, so a call that fails in filtering, ordering or selection leaves
\* the filesystem as it was.
C10_DirectoryAfterSelection ==
    IsVideo =>
        /\ fs # fs0 => stream # NoStream
        /\ cause.step \in {"filter", "order_by", "getitem"} => fs = fs0

\* C10 amended: the steps of download_video occur in the order: construct
\* the resolver, create the directory if save_path is non-empty and missing,
\* filter, order, select, transfer.  The directory is created before any
\* stream is queried, so a call that fails in filtering, ordering or selection
\* leaves the filesystem unchanged only if save_path was empty or existed; a
\* missing save_path is left behind as a new directory.
C10_DirectoryBeforeSelection ==
    IsVideo =>
        /\ IsPrefix(Ops, IF WasMissing
                         THEN <<"YouTube", "makedirs", "filter", "order_by",
                                "getitem", "download">>
                         ELSE <<"YouTube", "filter", "order_by", "getitem",
                                "download">>)
        /\ Performed("filter") => (fs # fs0 <=> WasMissing)
        /\ cause.step \in {"filter", "order_by", "getitem"} =>
            /\ fs = fs0 <=> ~WasMissing
            /\ WasMissing => NowDirectory

C10_Witness ==
    /\ entry = "download_video" /\ pc = "returned"
    /\ cause.step = "getitem"
    /\ WasMissing /\ NowDirectory
    /\ fs # fs0

\* The states of one call, read off the position and the outcome.
Phase ==
    CASE pc = "main" -> "NotCalled"
      [] pc = "validate" -> "Validating"
      [] pc \in {"new", "getbestaudio", "makedirs", "filter", "order_by",
                 "getitem", "download"} -> "Working"
      [] pc \in {"returned", "exit"} ->
            IF result.kind = "return" THEN "Done"
            ELSE IF result.kind = "raise" THEN "Failed"
            ELSE "NotCalled"

\* The number of statements still ahead, at most.
StepsLeft ==
    CASE pc = "main" -> 9
      [] pc = "validate" -> 8
      [] pc = "new" -> 7
      [] pc \in {"makedirs", "getbestaudio"} -> 6
      [] pc = "filter" -> 5
      [] pc = "order_by" -> 4
      [] pc = "getitem" -> 3
      [] pc = "download" -> 2
      [] pc = "returned" -> 1
      [] pc = "exit" -> 0

Times(op) == Cardinality({i \in 1..Len(calls) : calls[i].op = op})

C11_StateOfCall ==
    /\ Phase \in {"Validating", "Working"} <=>
        (result = NoResult /\ pc \notin {"main", "exit"})
    /\ Phase = "NotCalled" => (result = NoResult /\ calls = <<>> /\ url = Unset)
    /\ Phase = "Done" => (cause = NoCause /\ Times("download") = 1)
    /\ Phase = "Failed" =>
        /\ filename = ""
        /\ cause = NoCause <=> result.type = "ValueError"
    /\ Phase = "Validating" => calls = <<>>
    /\ Times("pafy.new") + Times("YouTube") <= 1
    /\ Times("download") <= 1
    /\ \/ pc = "exit"
       \/ pc = "returned" /\ ~IsScript
       \/ ENABLED Next

C11_StepOfCall ==
    /\ StepsLeft' < StepsLeft
    /\ <<Phase, Phase'>> \in
        { <<"NotCalled", "NotCalled">>, <<"NotCalled", "Validating">>,
          <<"Validating", "Working">>, <<"Validating", "Failed">>,
          <<"Working", "Working">>, <<"Working", "Done">>,
          <<"Working", "Failed">>,
          <<"Done", "Done">>, <<"Failed", "Failed">> }
    /\ result # NoResult =>
        /\ result' = result
        /\ calls' = calls
        /\ fs' = fs
        /\ cause' = cause

\* C11: a call of download_audio or download_video passes from Validating to
\* Resolving/Transferring to Done, or leaves any of these for Failed; every
\* step brings it nearer its end and it stops only once it has returned a path
\* (Done) or raised (Failed), an outcome that never changes afterwards.  The
\* resolver is constructed at most once and the transfer invoked at most once,
\* and after a failure no external step follows.
C11_CallLifecycle == []C11_StateOfCall /\ [][C11_StepOfCall]_vars

C11_Witness ==
    /\ entry = "download_video" /\ pc = "returned"
    /\ Phase = "Failed"
    /\ cause.step = "download"
    /\ Ops = <<"YouTube", "makedirs", "filter", "order_by", "getitem",
               "download">>

====
